---- MODULE Spec2Model ----
(***************************************************************************)
(* Mass-spring cloth simulation (Morphylus/rust-cloth-simulation).         *)
(*                                                                         *)
(* Two programs are modelled over one state:                               *)
(*   - the library  src/src/simulation.rs  (Cloth::new, Cloth::update);    *)
(*   - the binary   src/src/main.rs        (main: inline construction and  *)
(*     the inline simulation loop, which does not use Cloth).              *)
(*                                                                         *)
(* Floating-point values are modelled in fixed point: the integer v stands *)
(* for the real v / FP.  Products and quotients are rescaled and truncated *)
(* toward zero; sqrt is the integer square root of the rescaled argument.  *)
(* usize arithmetic keeps its two outcomes on underflow: a panic (overflow *)
(* checks on) or a wrap modulo the word size (overflow checks off).        *)
(***************************************************************************)
EXTENDS Integers, Sequences, FiniteSets, TLC

VARIABLES
    pc,                 \* position of the caller: see PcValues
    rows, cols,         \* Cloth.rows, Cloth.cols / main's rows, cols
    spacing, stiffness, \* construction arguments
    masses,             \* Cloth.masses / main's masses (0-based index k is masses[k+1])
    structural_springs, \* Cloth.structural_springs
    shear_springs,      \* Cloth.shear_springs
    bend_springs,       \* Cloth.bend_springs
    dt, damping, mass_value, wind, wind_speed, \* arguments of the running step
    steps,              \* completed steps (Cloth::update calls or loop iterations)
    created,            \* history: masses as construction left them
    pre,                \* history: masses when the running step was called
    log                 \* history: force applications and integrations of the running step

vars == <<pc, rows, cols, spacing, stiffness, masses, structural_springs,
          shear_springs, bend_springs, dt, damping, mass_value, wind,
          wind_speed, steps, created, pre, log>>

----------------------------------------------------------------------------
(* Bounds of the model *)

\* grids have 0..MaxDim rows and 0..MaxDim columns
MaxDim == 3
\* at most MaxSteps steps are taken after construction
MaxSteps == 2
\* fixed-point scale: the integer v stands for v / FP
FP == 1000
\* usize is modelled modulo 2^UsizeBits
UsizeBits == 20

UsizeModulus == 2 ^ UsizeBits

----------------------------------------------------------------------------
(* Fixed-point arithmetic standing for f32 / f64 *)

Abs(a) == IF a < 0 THEN -a ELSE a

\* a / b truncated toward zero (b # 0)
TDiv(a, b) == IF (a < 0) = (b < 0) THEN Abs(a) \div Abs(b) ELSE -(Abs(a) \div Abs(b))

FMul(a, b) == TDiv(a * b, FP)

FDiv(a, b) == TDiv(a * FP, b)

RECURSIVE SqrtSearch(_, _, _)
SqrtSearch(n, lo, hi) ==
    IF lo >= hi THEN lo
    ELSE LET mid == (lo + hi + 1) \div 2
         IN  IF mid * mid <= n THEN SqrtSearch(n, mid, hi)
                               ELSE SqrtSearch(n, lo, mid - 1)

\* f64::sqrt on a fixed-point argument
FSqrt(a) == SqrtSearch(a * FP, 0, 46340)

\* `k as f32` for an integer k
AsFloat(k) == k * FP

----------------------------------------------------------------------------
(* src/src/vec3.rs *)

Vec3_new(x, y, z) == <<x, y, z>>

Vec3_ZERO == <<0, 0, 0>>

Vec3_length(v) == FSqrt(FMul(v[1], v[1]) + FMul(v[2], v[2]) + FMul(v[3], v[3]))

Vec3_normalize(v) ==
    LET len == Vec3_length(v)
    IN  IF len > 0 THEN <<FDiv(v[1], len), FDiv(v[2], len), FDiv(v[3], len)>>
                   ELSE Vec3_ZERO

Vec3_add(u, v) == <<u[1] + v[1], u[2] + v[2], u[3] + v[3]>>

Vec3_sub(u, v) == <<u[1] - v[1], u[2] - v[2], u[3] - v[3]>>

Vec3_neg(v) == <<-v[1], -v[2], -v[3]>>

\* Vec3 * f64 and f64 * Vec3
Vec3_mul(v, s) == <<FMul(v[1], s), FMul(v[2], s), FMul(v[3], s)>>

\* Vec3 / f64
Vec3_div(v, s) == <<FDiv(v[1], s), FDiv(v[2], s), FDiv(v[3], s)>>

\* the dot product main.rs calls (u.x*v.x + u.y*v.y + u.z*v.z)
Vec3_dot(u, v) == FMul(u[1], v[1]) + FMul(u[2], v[2]) + FMul(u[3], v[3])

\* const GRAVITY = (0.0, -9.81, 0.0)
GRAVITY == <<0, -((981 * FP) \div 100), 0>>

----------------------------------------------------------------------------
(* Mass *)

Mass_new(position, pinned) ==
    [position |-> position, velocity |-> Vec3_ZERO,
     acceleration |-> Vec3_ZERO, pinned |-> pinned]

Mass_apply_force_unguarded(m, force) ==
    [m EXCEPT !.acceleration = Vec3_add(m.acceleration, force)]

Mass_apply_force(m, force) ==
    IF ~m.pinned
    THEN [m EXCEPT !.acceleration = Vec3_add(m.acceleration, force)]
    ELSE m

Mass_update_keeps_acceleration(m, t, mass) ==
    IF ~m.pinned
    THEN LET new_acc  == Vec3_div(m.acceleration, mass)
             velocity == Vec3_add(m.velocity, Vec3_mul(new_acc, t))
         IN  [m EXCEPT !.velocity = velocity,
                       !.position = Vec3_add(m.position, Vec3_mul(velocity, t))]
    ELSE m

Mass_update(m, t, mass) ==
    IF ~m.pinned
    THEN LET new_acc  == Vec3_div(m.acceleration, mass)
             velocity == Vec3_add(m.velocity, Vec3_mul(new_acc, t))
         IN  [m EXCEPT !.velocity = velocity,
                       !.position = Vec3_add(m.position, Vec3_mul(velocity, t)),
                       !.acceleration = Vec3_ZERO]
    ELSE m

----------------------------------------------------------------------------
(* Spring *)

Spring_new(a, b, rest_length, k) ==
    [a |-> a, b |-> b, rest_length |-> rest_length, stiffness |-> k]

\* masses[self.a] / masses[self.b] panic when the index is out of bounds
Spring_in_bounds(s, ms) == s.a < Len(ms) /\ s.b < Len(ms)

\* the `force` of Spring::apply_force
Spring_force(s, ms) ==
    LET distance == Vec3_sub(ms[s.b + 1].position, ms[s.a + 1].position)
        length   == Vec3_length(distance)
    IN  Vec3_mul(Vec3_normalize(distance), FMul(s.stiffness, length - s.rest_length))

\* Spring::apply_force on in-bounds indices
Spring_apply_force(s, ms) ==
    LET force == Spring_force(s, ms)
        ms1   == [ms  EXCEPT ![s.a + 1] = Mass_apply_force(@, force)]
    IN  [ms1 EXCEPT ![s.b + 1] = Mass_apply_force(@, Vec3_neg(force))]

----------------------------------------------------------------------------
(* usize arithmetic *)

\* a - b with overflow checks off: wraps modulo the word size
USub(a, b) == (a - b) % UsizeModulus

\* Cloth::init evaluates `self.cols - 2` and `self.rows - 2` in its first
\* cell iteration: with overflow checks on, that panics in a grid with a
\* single row or a single column (an empty grid never enters the loops)
Init_underflows(r, c) == r >= 1 /\ c >= 1 /\ (r < 2 \/ c < 2)

----------------------------------------------------------------------------
(* Construction: Cloth::init, and the same loops inlined in main *)

Opt(cond, s) == IF cond THEN <<s>> ELSE <<>>

\* the sequence ss[lo] \o ss[lo+1] \o ... \o ss[hi]
RECURSIVE Concat(_, _, _)
Concat(ss, lo, hi) ==
    IF lo > hi THEN <<>>
    ELSE IF lo = hi THEN ss[lo]
    ELSE LET mid == (lo + hi) \div 2
         IN  Concat(ss, lo, mid) \o Concat(ss, mid + 1, hi)

\* the cells of the grid as the nested loops visit them: cell n is (n / c, n % c)
Cells(r, c) == 0..(r * c - 1)

\* Cloth::init pins both corners of row 0
Cloth_pinned(c, i, j) == (i = 0 /\ j = 0) \/ (i = 0 /\ j = USub(c, 1))

\* main pins the corner (0, 0) only
Main_pinned(c, i, j) == i = 0 /\ j = 0

\* the masses pushed cell by cell; both_corners tells Cloth::init from main
Init_masses(r, c, sp, both_corners) ==
    Concat([n \in Cells(r, c) |->
               LET i == n \div c
                   j == n % c
               IN  <<Mass_new(Vec3_new(FMul(AsFloat(j), sp), 0, FMul(AsFloat(i), sp)),
                              IF both_corners THEN Cloth_pinned(c, i, j)
                                              ELSE Main_pinned(c, i, j))>>],
           0, r * c - 1)

Structural_at(r, c, i, j, sp, k) ==
    LET index == i * c + j
    IN  Opt(j < USub(c, 1), Spring_new(index, index + 1, sp, k))
     \o Opt(j > 0,          Spring_new(index, USub(index, 1), sp, k))
     \o Opt(i > 0,          Spring_new(index, USub(index, c), sp, k))
     \o Opt(i < USub(r, 1), Spring_new(index, index + c, sp, k))

\* the last test reads `i < self.cols - 1`, as the source does
Shear_at(r, c, i, j, sp, k) ==
    LET index == i * c + j
        shear_rest_length == FSqrt(FMul(FMul(AsFloat(2), sp), sp))
    IN  Opt(j > 0 /\ i > 0,
            Spring_new(index, USub(USub(index, c), 1), shear_rest_length, k))
     \o Opt(j < USub(c, 1) /\ i > 0,
            Spring_new(index, USub(index, c) + 1, shear_rest_length, k))
     \o Opt(j > 0 /\ i < USub(r, 1),
            Spring_new(index, USub(index + c, 1), shear_rest_length, k))
     \o Opt(j < USub(c, 1) /\ i < USub(c, 1),
            Spring_new(index, index + c + 1, shear_rest_length, k))

Bend_at(r, c, i, j, sp, k) ==
    LET index == i * c + j
        bend_rest_length == FMul(sp, AsFloat(2))
    IN  Opt(i > 1,          Spring_new(index, USub(index, 2 * c), bend_rest_length, k))
     \o Opt(j < USub(c, 2), Spring_new(index, index + 2, bend_rest_length, k))
     \o Opt(i < USub(r, 2), Spring_new(index, index + 2 * c, bend_rest_length, k))
     \o Opt(j > 1,          Spring_new(index, USub(index, 2), bend_rest_length, k))

\* the springs of each kind, pushed cell by cell in row-major order
Init_structural(r, c, sp, k) ==
    Concat([n \in Cells(r, c) |-> Structural_at(r, c, n \div c, n % c, sp, k)], 0, r * c - 1)

Init_shear(r, c, sp, k) ==
    Concat([n \in Cells(r, c) |-> Shear_at(r, c, n \div c, n % c, sp, k)], 0, r * c - 1)

Init_bend(r, c, sp, k) ==
    Concat([n \in Cells(r, c) |-> Bend_at(r, c, n \div c, n % c, sp, k)], 0, r * c - 1)

----------------------------------------------------------------------------
(* One step: the loops of Cloth::apply_forces and Cloth::update.           *)
(* A loop runs over st = [ms, log, ok]: the masses, the effects so far and *)
(* whether the loop is still running (ok = FALSE once an index panicked).  *)

\* spring.apply_force(&mut self.masses), for spring n of `sps`
Spring_body(sps, tag, n, t) ==
    IF ~Spring_in_bounds(sps[n + 1], t.ms) THEN [t EXCEPT !.ok = FALSE]
    ELSE [t EXCEPT !.ms  = Spring_apply_force(sps[n + 1], @),
                   !.log = Append(@, <<tag, n>>)]

\* mass.apply_force(GRAVITY); mass.apply_force(-damping * mass.velocity), for mass n
Gravity_damping_body(damp, n, t) ==
    LET m0 == t.ms[n + 1]
        m1 == Mass_apply_force(m0, GRAVITY)
        m2 == Mass_apply_force(m1, Vec3_mul(m1.velocity, -damp))
    IN  [t EXCEPT !.ms[n + 1] = m2,
                  !.log = @ \o << <<"gravity", n>>, <<"damping", n>> >>]

\* mass.update(dt, mass_value), for mass n
Integrate_body(t_step, mass, n, t) ==
    [t EXCEPT !.ms[n + 1] = Mass_update(@, t_step, mass),
              !.log = Append(@, <<"integrate", n>>)]

----------------------------------------------------------------------------
(* The aerodynamic force of main's loop *)

calculate_triangle_normal(p1, p2, p3) ==
    LET u == Vec3_sub(p2, p1)
        v == Vec3_sub(p3, p1)
    IN  Vec3_new(FMul(u[2], v[3]) - FMul(u[3], v[2]),
                 FMul(u[3], v[1]) - FMul(u[1], v[3]),
                 FMul(u[1], v[2]) - FMul(u[2], v[1]))

RECURSIVE Vec3_sum(_, _)
Vec3_sum(vs, n) == IF n = 0 THEN Vec3_ZERO ELSE Vec3_add(Vec3_sum(vs, n - 1), vs[n])

\* surrounding_positions is not empty in any grid with two cells or more
calculate_vertex_normal(center, surrounding_positions) ==
    LET length == Len(surrounding_positions)
        triangle_normals ==
            [i \in 1..length |->
                calculate_triangle_normal(center, surrounding_positions[i],
                                          surrounding_positions[(i % length) + 1])]
    IN  Vec3_div(Vec3_sum(triangle_normals, length), AsFloat(length))

\* the neighbours main pushes, in its order: +row, +col, -row, -col
Surrounding_positions(r, c, positions, index) ==
    LET i == index \div c
        j == index % c
    IN  Opt(i < USub(r, 1), positions[index + c + 1])
     \o Opt(j < USub(c, 1), positions[index + 1 + 1])
     \o Opt(i > 0,          positions[index - c + 1])
     \o Opt(j > 0,          positions[index - 1 + 1])

\* wind_speed * vertex_normal.dot(wind - mass.velocity) * vertex_normal
Wind_force(r, c, positions, index, m, w, w_speed) ==
    LET vertex_normal ==
            calculate_vertex_normal(m.position, Surrounding_positions(r, c, positions, index))
    IN  Vec3_mul(vertex_normal, FMul(w_speed, Vec3_dot(vertex_normal, Vec3_sub(w, m.velocity))))

\* the body of main's per-particle loop, for mass n: gravity, damping, the
\* wind force with the neighbours read from `positions`, then mass.update
Main_particle_body(r, c, positions, damp, w, w_speed, t_step, mass, n, t) ==
    LET m0 == t.ms[n + 1]
        m1 == Mass_apply_force(m0, GRAVITY)
        m2 == Mass_apply_force(m1, Vec3_mul(m1.velocity, -damp))
        m3 == Mass_apply_force(m2, Wind_force(r, c, positions, n, m2, w, w_speed))
        m4 == Mass_update(m3, t_step, mass)
    IN  [t EXCEPT !.ms[n + 1] = m4,
                  !.log = @ \o << <<"gravity", n>>, <<"damping", n>>,
                                  <<"wind", n>>, <<"integrate", n>> >>]

----------------------------------------------------------------------------
(* The loops.  `loop` names the loop and carries what its body reads. *)

Body(loop, n, t) ==
    CASE loop.kind = "springs" ->
             Spring_body(loop.springs, loop.tag, n, t)
      [] loop.kind = "gravity_damping" ->
             Gravity_damping_body(loop.damping, n, t)
      [] loop.kind = "integrate" ->
             Integrate_body(loop.dt, loop.mass, n, t)
      [] loop.kind = "main_particles" ->
             Main_particle_body(loop.rows, loop.cols, loop.positions, loop.damping,
                                loop.wind, loop.wind_speed, loop.dt, loop.mass, n, t)

\* st after the iterations lo, lo+1, ..., hi of the loop, in this order; the
\* loop ends at the iteration that panics
RECURSIVE Loop(_, _, _, _)
Loop(loop, lo, hi, st) ==
    IF lo > hi THEN st
    ELSE IF lo = hi THEN Body(loop, lo, st)
    ELSE LET mid  == (lo + hi) \div 2
             left == Loop(loop, lo, mid, st)
         IN  IF ~left.ok THEN left ELSE Loop(loop, mid + 1, hi, left)

\* for spring in &springs { spring.apply_force(&mut self.masses); }
Apply_springs(sps, tag, st) ==
    Loop([kind |-> "springs", springs |-> sps, tag |-> tag], 0, Len(sps) - 1, st)

\* for mass in &mut self.masses { gravity; damping }
Apply_gravity_damping(damp, st) ==
    Loop([kind |-> "gravity_damping", damping |-> damp], 0, Len(st.ms) - 1, st)

\* for mass in &mut self.masses { mass.update(dt, mass_value); }
Integrate_all(t_step, mass, st) ==
    Loop([kind |-> "integrate", dt |-> t_step, mass |-> mass], 0, Len(st.ms) - 1, st)

\* let positions = ...; for (index, mass) in masses.iter_mut().enumerate() { ... }
Main_particles(r, c, damp, w, w_speed, t_step, mass, st) ==
    Loop([kind |-> "main_particles", rows |-> r, cols |-> c,
          positions |-> [n \in 1..Len(st.ms) |-> st.ms[n].position],
          damping |-> damp, wind |-> w, wind_speed |-> w_speed,
          dt |-> t_step, mass |-> mass],
         0, Len(st.ms) - 1, st)

----------------------------------------------------------------------------
(* Inputs.  The arguments include the ones the specification rejects     *)
(* (an empty grid, spacing 0, a negative stiffness, dt <= 0, a negative   *)
(* mass): the code accepts them all.  mass_value = 0 is left out: the     *)
(* division by zero of Mass::update gives inf / NaN, which the fixed      *)
(* point has no value for.                                                 *)

Dims        == 0..MaxDim
Spacings    == {0, FP}
Stiffnesses == {-FP, FP}
DtValues    == {-(FP \div 10), 0, FP \div 10}
MassValues  == {-FP, FP}
Dampings    == {(3 * FP) \div 10}
Winds       == {<<-FP, 0, -FP>>}
WindSpeeds  == {5 * FP}

\* the locals of main
MainRows == 15
MainCols == 15
Main_spacing    == 2 * FP
Main_stiffness  == 100 * FP
Main_mass_value == FP \div 2
Main_dt         == FP \div 100
Main_damping    == (3 * FP) \div 10
Main_wind       == <<-FP, 0, -FP>>
Main_wind_speed == 5 * FP

PcValues == {"new", "ready", "structural", "shear", "bend", "particles",
             "integrate", "panicked", "init_panicked",
             "main_loop", "main_shear", "main_particles"}

----------------------------------------------------------------------------
(* The state machine *)

Init ==
    /\ pc = "new"
    /\ rows = 0 /\ cols = 0 /\ spacing = 0 /\ stiffness = 0
    /\ masses = <<>>
    /\ structural_springs = <<>> /\ shear_springs = <<>> /\ bend_springs = <<>>
    /\ dt = 0 /\ damping = 0 /\ mass_value = 0 /\ wind = Vec3_ZERO /\ wind_speed = 0
    /\ steps = 0
    /\ created = <<>> /\ pre = <<>> /\ log = <<>>

step_args == <<dt, damping, mass_value, wind, wind_speed>>
springs   == <<structural_springs, shear_springs, bend_springs>>
grid      == <<rows, cols, spacing, stiffness>>

\* Cloth::new(cols, rows, spacing, stiffness), run to completion: overflow
\* checks off, or a grid in which no subtraction underflows
Cloth_new(c, r, sp, k) ==
    /\ pc = "new"
    /\ pc' = "ready"
    /\ rows' = r /\ cols' = c /\ spacing' = sp /\ stiffness' = k
    /\ masses' = Init_masses(r, c, sp, TRUE)
    /\ created' = masses'
    /\ structural_springs' = Init_structural(r, c, sp, k)
    /\ shear_springs' = Init_shear(r, c, sp, k)
    /\ bend_springs' = Init_bend(r, c, sp, k)
    /\ UNCHANGED <<step_args, steps, pre, log>>

\* Cloth::new with overflow checks on, in a grid where `cols - 2` or
\* `rows - 2` underflows: init panics and no Cloth is returned
Cloth_new_panics(c, r, sp, k) ==
    /\ pc = "new"
    /\ Init_underflows(r, c)
    /\ pc' = "init_panicked"
    /\ rows' = r /\ cols' = c /\ spacing' = sp /\ stiffness' = k
    /\ UNCHANGED <<masses, springs, step_args, steps, created, pre, log>>

\* Cloth::update is called: nothing is validated
Cloth_update(t, damp, mass, w, w_speed) ==
    /\ pc = "ready"
    /\ steps < MaxSteps
    /\ pc' = "structural"
    /\ dt' = t /\ damping' = damp /\ mass_value' = mass /\ wind' = w /\ wind_speed' = w_speed
    /\ pre' = masses
    /\ log' = <<>>
    /\ UNCHANGED <<grid, masses, springs, steps, created>>

Running == [ms |-> masses, log |-> log, ok |-> TRUE]

\* a loop of the step ran: to pc `next`, or to the panic of an index out of bounds
Ran(st, next) ==
    /\ masses' = st.ms
    /\ log' = st.log
    /\ pc' = IF st.ok THEN next ELSE "panicked"

Cloth_apply_structural ==
    /\ pc = "structural"
    /\ Ran(Apply_springs(structural_springs, "structural", Running), "shear")
    /\ UNCHANGED <<grid, springs, step_args, steps, created, pre>>

Cloth_apply_shear ==
    /\ pc = "shear"
    /\ Ran(Apply_springs(shear_springs, "shear", Running), "bend")
    /\ UNCHANGED <<grid, springs, step_args, steps, created, pre>>

Cloth_apply_bend ==
    /\ pc = "bend"
    /\ Ran(Apply_springs(bend_springs, "bend", Running), "particles")
    /\ UNCHANGED <<grid, springs, step_args, steps, created, pre>>

Cloth_apply_gravity_damping ==
    /\ pc = "particles"
    /\ Ran(Apply_gravity_damping(damping, Running), "integrate")
    /\ UNCHANGED <<grid, springs, step_args, steps, created, pre>>

Cloth_integrate ==
    /\ pc = "integrate"
    /\ Ran(Integrate_all(dt, mass_value, Running), "ready")
    /\ steps' = steps + 1
    /\ UNCHANGED <<grid, springs, step_args, created, pre>>

\* main, up to its loop
Main_init ==
    /\ pc = "new"
    /\ pc' = "main_loop"
    /\ rows' = MainRows /\ cols' = MainCols
    /\ spacing' = Main_spacing /\ stiffness' = Main_stiffness
    /\ masses' = Init_masses(MainRows, MainCols, Main_spacing, FALSE)
    /\ created' = masses'
    /\ structural_springs' =
           Init_structural(MainRows, MainCols, Main_spacing, Main_stiffness)
    /\ shear_springs' =
           Init_shear(MainRows, MainCols, Main_spacing, Main_stiffness)
    /\ bend_springs' =
           Init_bend(MainRows, MainCols, Main_spacing, Main_stiffness)
    /\ dt' = Main_dt /\ damping' = Main_damping /\ mass_value' = Main_mass_value
    /\ wind' = Main_wind /\ wind_speed' = Main_wind_speed
    /\ UNCHANGED <<steps, pre, log>>

\* one iteration of main's loop starts: the structural springs
Main_apply_structural ==
    /\ pc = "main_loop"
    /\ steps < MaxSteps
    /\ pre' = masses
    /\ Ran(Apply_springs(structural_springs, "structural",
                         [ms |-> masses, log |-> <<>>, ok |-> TRUE]), "main_shear")
    /\ UNCHANGED <<grid, springs, step_args, steps, created>>

Main_apply_shear ==
    /\ pc = "main_shear"
    /\ Ran(Apply_springs(shear_springs, "shear", Running), "main_particles")
    /\ UNCHANGED <<grid, springs, step_args, steps, created, pre>>

Main_particle_loop ==
    /\ pc = "main_particles"
    /\ Ran(Main_particles(rows, cols, damping, wind, wind_speed, dt, mass_value, Running),
           "main_loop")
    /\ steps' = steps + 1
    /\ UNCHANGED <<grid, springs, step_args, created, pre>>

Next ==
    \/ \E c \in Dims, r \in Dims, sp \in Spacings, k \in Stiffnesses :
           Cloth_new(c, r, sp, k)
    \/ \E c \in Dims, r \in Dims, sp \in Spacings, k \in Stiffnesses :
           Cloth_new_panics(c, r, sp, k)
    \/ \E t \in DtValues, damp \in Dampings, mass \in MassValues,
          w \in Winds, w_speed \in WindSpeeds :
           Cloth_update(t, damp, mass, w, w_speed)
    \/ Cloth_apply_structural
    \/ Cloth_apply_shear
    \/ Cloth_apply_bend
    \/ Cloth_apply_gravity_damping
    \/ Cloth_integrate
    \/ Main_init
    \/ Main_apply_structural
    \/ Main_apply_shear
    \/ Main_particle_loop

Spec == Init /\ [][Next]_vars

\* the library alone: Cloth::new and Cloth::update
NextCloth ==
    \/ \E c \in Dims, r \in Dims, sp \in Spacings, k \in Stiffnesses :
           Cloth_new(c, r, sp, k)
    \/ \E c \in Dims, r \in Dims, sp \in Spacings, k \in Stiffnesses :
           Cloth_new_panics(c, r, sp, k)
    \/ \E t \in DtValues, damp \in Dampings, mass \in MassValues,
          w \in Winds, w_speed \in WindSpeeds :
           Cloth_update(t, damp, mass, w, w_speed)
    \/ Cloth_apply_structural
    \/ Cloth_apply_shear
    \/ Cloth_apply_bend
    \/ Cloth_apply_gravity_damping
    \/ Cloth_integrate

SpecCloth == Init /\ [][NextCloth]_vars

\* the binary alone: main
NextMain ==
    \/ Main_init
    \/ Main_apply_structural
    \/ Main_apply_shear
    \/ Main_particle_loop

SpecMain == Init /\ [][NextMain]_vars

ClothPcs == {"ready", "structural", "shear", "bend", "particles", "integrate", "panicked"}
StepPcs  == {"structural", "shear", "bend", "particles", "integrate"}
MainPcs  == {"main_loop", "main_shear", "main_particles"}

----------------------------------------------------------------------------
(* Properties *)

Indices == 1..Len(masses)

\* construction returned: a Cloth exists, or main reached its loop
Built == pc \in ClothPcs \cup MainPcs

\* the arguments construction and a step are specified for
ValidGrid == rows >= 1 /\ cols >= 1 /\ spacing > 0 /\ stiffness >= 0
ValidStep == dt > 0 /\ mass_value > 0

Pair(s) == {s.a, s.b}

PairsOf(sps) == {Pair(sps[n]) : n \in 1..Len(sps)}

SpringSets == <<structural_springs, shear_springs, bend_springs>>

\* C1: a pinned particle keeps the position and the velocity construction
\* gave it through every step, and its accumulator never holds a force:
\* in every state, during a step as well as between steps
C1_PinnedFrozen ==
    \A n \in Indices :
        masses[n].pinned =>
            /\ masses[n].position = created[n].position
            /\ masses[n].velocity = created[n].velocity
            /\ masses[n].acceleration = Vec3_ZERO

\* C1's case: the structural springs of a Cloth have just been applied, and
\* one of them computed a non-zero force on its pinned first endpoint
C1_Witness ==
    /\ pc = "shear"
    /\ ValidGrid /\ ValidStep
    /\ \E n \in 1..Len(structural_springs) :
           LET s == structural_springs[n]
           IN  /\ masses[s.a + 1].pinned
               /\ ~masses[s.b + 1].pinned
               /\ Spring_force(s, masses) # Vec3_ZERO

\* C2: in a grid with rows >= 1 and cols >= 1, every spring of the three
\* sets joins two different particles, both with an index below rows*cols,
\* and so no step panics on an index
C2_SpringsInBounds ==
    (Built /\ ValidGrid) =>
        /\ \A k \in 1..3 : \A n \in 1..Len(SpringSets[k]) :
               LET s == SpringSets[k][n]
               IN  s.a # s.b /\ s.a < rows * cols /\ s.b < rows * cols
        /\ pc # "panicked"

\* C3: construction of an r x c grid (r, c >= 1) produces exactly r*c
\* particles and exactly 2*r*c - r - c structural springs
C3_Counts ==
    (Built /\ ValidGrid) =>
        /\ Len(masses) = rows * cols
        /\ Len(structural_springs) = 2 * rows * cols - rows - cols

\* C4: within each spring set an unordered pair of particles appears at
\* most once: neither (a, b) twice nor (a, b) together with (b, a)
C4_NoDuplicatePairs ==
    (Built /\ ValidGrid) => \A k \in 1..3 : Cardinality(PairsOf(SpringSets[k])) = Len(SpringSets[k])

\* the in-bounds diagonal pairs of the grid
DiagonalPairs ==
    {{i * cols + j, (i + 1) * cols + j2} :
        <<i, j, j2>> \in {t \in (0..rows - 2) \X (0..cols - 1) \X (0..cols - 1) :
                              t[3] = t[2] + 1 \/ t[3] = t[2] - 1}}

\* C5: in every grid, square or not, the shear springs join exactly the
\* in-bounds diagonal pairs (row, col) -- (row +- 1, col +- 1)
C5_ShearIsDiagonals == (Built /\ ValidGrid) => PairsOf(shear_springs) = DiagonalPairs

\* the order of effects C6 fixes for one step
EventsOf(tag, n) == [k \in 1..n |-> <<tag, k - 1>>]

Step_order ==
    LET particle == [n \in 0..(Len(masses) - 1) |-> << <<"gravity", n>>, <<"damping", n>> >>]
    IN     EventsOf("structural", Len(structural_springs))
        \o EventsOf("shear", Len(shear_springs))
        \o EventsOf("bend", Len(bend_springs))
        \o Concat(particle, 0, Len(masses) - 1)
        \o EventsOf("integrate", Len(masses))

IsPrefix(p, q) == Len(p) <= Len(q) /\ p = SubSeq(q, 1, Len(p))

\* the applications of the wind force are no part of the order C6 fixes
NoWind(l) == SelectSeq(l, LAMBDA e : e[1] # "wind")

\* C6: the effects of a step happen in the fixed order: every structural
\* spring, every shear spring, every bend spring (each generated spring
\* once), gravity and damping particle by particle, and only then the
\* integration of the particles; a completed step has all of them
C6_StepOrder ==
    /\ IsPrefix(NoWind(log), Step_order)
    /\ (pc \in {"ready", "main_loop"} /\ steps > 0) => NoWind(log) = Step_order

Positions(ms) == [n \in 1..Len(ms) |-> ms[n].position]

\* the accumulator of particle n after gravity, damping and the wind force
\* whose normal comes from the positions `snapshot`
With_particle_forces(m, n, snapshot) ==
    LET m1 == Mass_apply_force(m, GRAVITY)
        m2 == Mass_apply_force(m1, Vec3_mul(m1.velocity, -damping))
    IN  Mass_apply_force(m2, Wind_force(rows, cols, snapshot, n - 1, m2, wind, wind_speed))

\* C7: with wind configured, the particle forces of one step include, for
\* every unpinned particle, the wind force computed from the positions the
\* particles had before any of them was integrated in this step
C7_WindApplied ==
    [][/\ (pc = "particles" /\ ValidGrid /\ ValidStep /\ wind_speed # 0) =>
              \A n \in Indices :
                  ~masses[n].pinned =>
                      masses'[n] = With_particle_forces(masses[n], n, Positions(masses))
       /\ (pc = "main_particles" /\ ValidGrid /\ ValidStep /\ wind_speed # 0) =>
              \A n \in Indices :
                  ~masses[n].pinned =>
                      masses'[n] = Mass_update(
                          With_particle_forces(masses[n], n, Positions(masses)),
                          dt, mass_value)]_vars

\* Cloth::update has been called at least once
Step_called == pc \in StepPcs \cup {"panicked"} \/ (pc = "ready" /\ steps > 0)

\* C8: a step called with dt <= 0 or mass <= 0 fails: it does not return
\* as a completed step, and position, velocity and acceleration of every
\* particle are those of before the call
C8_InvalidStepRejected ==
    (Step_called /\ ValidGrid /\ ~ValidStep) =>
        /\ pc # "ready"
        /\ masses = pre

\* C9: construction with cols < 1, rows < 1, spacing <= 0 or stiffness < 0
\* fails and yields no simulation object
C9_InvalidConstructionRejected ==
    (pc # "new" /\ (cols < 1 \/ rows < 1 \/ spacing <= 0 \/ stiffness < 0)) =>
        /\ pc \notin ClothPcs
        /\ masses = <<>>
        /\ structural_springs = <<>> /\ shear_springs = <<>> /\ bend_springs = <<>>

\* C10: whenever construction or a step completes, every accumulator is
\* zero; and no step changes the number of particles, a pinned flag or a
\* spring
C10_StepLeavesNoForce ==
    [][/\ (pc # pc' /\ pc' \in {"ready", "main_loop"}) =>
              \A n \in 1..Len(masses') : masses'[n].acceleration = Vec3_ZERO
       /\ pc # "new" =>
              /\ springs' = springs
              /\ Len(masses') = Len(masses)
              /\ \A n \in Indices : masses'[n].pinned = masses[n].pinned]_vars

\* C10's case: a step of a Cloth has completed, in which forces were
\* accumulated on an unpinned particle and integrated into its velocity
C10_Witness ==
    /\ pc = "ready"
    /\ steps > 0
    /\ ValidGrid /\ ValidStep
    /\ \E n \in Indices :
           /\ ~masses[n].pinned
           /\ masses[n].velocity # Vec3_ZERO
           /\ masses[n].acceleration = Vec3_ZERO
           /\ <<"gravity", n - 1>> \in {log[k] : k \in 1..Len(log)}

====
